---- MODULE Spec2Model ----
(***************************************************************************)
(* Model of the rubric score reconciliation code of the essay grading      *)
(* front end: ResultsPage (frontend/src/Footer.js, second component of     *)
(* the file) and EditScoreModal (frontend/src/EditScoreModal.js), and of   *)
(* the way to the results: App (unnamed/part_003), UploadPage              *)
(* (frontend/src/UploadPage.js) and GradingPage (unnamed/part_002).        *)
(*                                                                         *)
(* A JavaScript object is modelled as the sequence of its entries          *)
(* [k |-> key, v |-> value] in insertion order, keys pairwise distinct.    *)
(* An optional value (a field that may be undefined) is <<>> when absent   *)
(* and <<x>> when present.  A score string `${n}/${d}` is the record       *)
(* [num |-> n, den |-> d]; parseInt(s.split('/')[0]) reads its num.        *)
(* A string that the code searches, splits or rewrites is the sequence of  *)
(* its characters.                                                         *)
(***************************************************************************)
EXTENDS Integers, Sequences, FiniteSets, TLC

VARIABLES
  results,                  \* ResultsPage prop: the raw batch
  students,                 \* ResultsPage: processResults(results), the same in every render
  updatedStudents,          \* ResultsPage state
  currentStudent,           \* ResultsPage state
  searchQuery,              \* ResultsPage state
  selectedEssayTypeFilter,  \* ResultsPage state (<<>> is null)
  isEditModalOpen,          \* ResultsPage state
  scores,                   \* EditScoreModal state
  gradingSource,            \* EditScoreModal state
  feedback,                 \* EditScoreModal state (the textarea)
  originalAIFeedback,       \* EditScoreModal state
  clock,                    \* number of saves so far: the value of new Date()
  dfInput,                  \* deduplicateFeedback: argument
  dfResult,                 \* deduplicateFeedback: result, <<>> before the call
  dfPrior,                  \* the result for the same entries in the earlier key order
  dfReread,                 \* deduplicateFeedback applied to its own result
  hlText,                   \* highlightFlaggedContent: the essay text, as characters
  hlFlagged,                \* highlightFlaggedContent: flaggedSentences (<<>> is undefined)
  hlResult,                 \* highlightFlaggedContent: result, <<>> before the call
  currentPage,              \* App state
  essayData,                \* App state; the originalEssayData prop of ResultsPage
  gradingResults,           \* App state
  selectedFile,             \* UploadPage state (<<>> is null)
  uploadProgress,           \* UploadPage state
  isUploading,              \* UploadPage state
  uploadComplete,           \* UploadPage state
  pageEssayData,            \* UploadPage state essayData
  parseError,               \* UploadPage state (<<>> is null)
  reads,                    \* UploadPage: the files whose FileReader has not called onload yet
  intervals,                \* UploadPage: the number of simulateUpload intervals not cleared
  selections,               \* the number of files chosen so far
  isGrading,                \* GradingPage state
  error,                    \* GradingPage state (<<>> is null)
  currentStep,              \* GradingPage state
  inFlight,                 \* GradingPage: the number of fetch calls not settled
  pendingResults,           \* GradingPage: the results the setTimeout will pass to onComplete
  completions               \* the number of onComplete calls of the mounted GradingPage

vars == <<results, students, updatedStudents, currentStudent, searchQuery,
          selectedEssayTypeFilter, isEditModalOpen, scores, gradingSource,
          feedback, originalAIFeedback, clock,
          dfInput, dfResult, dfPrior, dfReread, hlText, hlFlagged, hlResult,
          currentPage, essayData, gradingResults,
          selectedFile, uploadProgress, isUploading, uploadComplete, pageEssayData,
          parseError, reads, intervals, selections,
          isGrading, error, currentStep, inFlight, pendingResults, completions>>

pageVars == <<results, students, updatedStudents, currentStudent, searchQuery,
              selectedEssayTypeFilter, isEditModalOpen, scores, gradingSource,
              feedback, originalAIFeedback, clock>>

dfVars == <<dfInput, dfResult, dfPrior, dfReread>>

hlVars == <<hlText, hlFlagged, hlResult>>

appVars == <<currentPage, essayData, gradingResults>>

uploadVars == <<selectedFile, uploadProgress, isUploading, uploadComplete, pageEssayData,
                parseError, reads, intervals, selections>>

gradingVars == <<isGrading, error, currentStep, inFlight, pendingResults, completions>>

flowVars == <<appVars, uploadVars, gradingVars>>

-----------------------------------------------------------------------------
(* Bounds *)

MaxBatch == 2
MaxSaves == 2
MaxFbLen == 3
MaxTextLen == 3
MaxFlagged == 2

-----------------------------------------------------------------------------
(* Optional values and JavaScript objects *)

None == <<>>

Some(x) == <<x>>

\* the JavaScript value null / undefined / '' stored under a key
Null == [null |-> TRUE]

Truthy(v) == v # Null

Keys(o) == {o[i].k : i \in DOMAIN o}

Has(o, key) == key \in Keys(o)

Get(o, key) == o[CHOOSE i \in DOMAIN o : o[i].k = key].v

\* o[key] = value: an existing key keeps its position, a new key is appended
Put(o, key, value) ==
  IF Has(o, key)
  THEN [i \in DOMAIN o |-> IF o[i].k = key THEN [k |-> key, v |-> value] ELSE o[i]]
  ELSE Append(o, [k |-> key, v |-> value])

RECURSIVE Spread(_, _)
\* {...a, ...b}
Spread(a, b) ==
  IF b = <<>> THEN a ELSE Spread(Put(a, Head(b).k, Head(b).v), Tail(b))

Entries(o) == {<<o[i].k, o[i].v>> : i \in DOMAIN o}

DistinctKeys(o) == \A i, j \in DOMAIN o : o[i].k = o[j].k => i = j

RECURSIVE SumSeq(_)
SumSeq(s) == IF s = <<>> THEN 0 ELSE Head(s) + SumSeq(Tail(s))

\* Math.round(n / d) for n >= 0, d > 0
RoundDiv(n, d) == (2 * n + d) \div (2 * d)

\* The score of an essay as a whole (mean_score, essay_score, essayScore and
\* the numerator of the score string) is a decimal number with one digit
\* after the point, kept as its tenfold; the scores of the criteria are whole.
Whole(n) == 10 * n

\* Math.round(x) of a number that is not negative: halves go up
MathRound(x) == 10 * ((x + 5) \div 10)

-----------------------------------------------------------------------------
(* Criterion keys *)

rubricSections ==
  << "content_understanding", "question_addressing", "use_of_textual_evidence",
     "analysis_and_interpretation", "writing_quality", "overall_performance" >>

keyMappings ==
  << [k |-> "contentUnderstanding",   v |-> "content_understanding"],
     [k |-> "questionAddressing",     v |-> "question_addressing"],
     [k |-> "textualEvidence",        v |-> "use_of_textual_evidence"],
     [k |-> "analysisInterpretation", v |-> "analysis_and_interpretation"],
     [k |-> "writingQuality",         v |-> "writing_quality"] >>

\* keys outside the rubric that occur in the inputs of this model
UnknownKeys == {"clarity", "word_choice"}

\* key.includes('_')
includesUnderscore(key) ==
  key \in {rubricSections[i] : i \in DOMAIN rubricSections} \cup {"word_choice"}

\* Object.keys(keyMappings).find(k => keyMappings[k] === key), as a set
camelCaseKeyOf(key) == {keyMappings[i].k : i \in {j \in DOMAIN keyMappings : keyMappings[j].v = key}}

-----------------------------------------------------------------------------
(* deduplicateFeedback *)

\* a first pass that does not mark the legacy alias of a canonical key
dedupProcessedNoAlias(fb) ==
  {fb[i].k : i \in {j \in DOMAIN fb : includesUnderscore(fb[j].k)}}

\* the set `processed` after the first pass
dedupProcessed(fb) ==
  UNION {{fb[i].k} \cup camelCaseKeyOf(fb[i].k) :
           i \in {j \in DOMAIN fb : includesUnderscore(fb[j].k)}}

\* first pass: every key with an underscore, in input order
dedupFirstPass(fb) == SelectSeq(fb, LAMBDA e : includesUnderscore(e.k))

\* a second pass that keeps only the legacy aliases it knows
dedupSecondPassKnownOnly(fb) ==
  SelectSeq(fb, LAMBDA e :
      /\ e.k \notin dedupProcessed(fb)
      /\ ~includesUnderscore(e.k)
      /\ Has(keyMappings, e.k)
      /\ \/ ~Has(fb, Get(keyMappings, e.k))
         \/ ~Truthy(Get(fb, Get(keyMappings, e.k))))

\* second pass: keys without underscore that were not claimed by the first pass
dedupSecondPass(fb) ==
  SelectSeq(fb, LAMBDA e :
      /\ e.k \notin dedupProcessed(fb)
      /\ ~includesUnderscore(e.k)
      /\ \/ ~Has(keyMappings, e.k)
         \/ ~Has(fb, Get(keyMappings, e.k))
         \/ ~Truthy(Get(fb, Get(keyMappings, e.k))))

\* one pass in input order, a legacy key dropped only if its canonical key came earlier
dedupOnePass(fb) ==
  SelectSeq(fb, LAMBDA e :
      \/ includesUnderscore(e.k)
      \/ ~Has(keyMappings, e.k)
      \/ ~\E i, j \in DOMAIN fb : /\ fb[i].k = Get(keyMappings, e.k)
                                  /\ fb[j].k = e.k
                                  /\ i < j)

deduplicateFeedback(fb) == dedupFirstPass(fb) \o dedupSecondPass(fb)

-----------------------------------------------------------------------------
(* Raw grading records *)

\* one indexed rubric slot: rubric_metric<i>_name, _score, _grading_source
Slot(name, score, source) == [name |-> name, score |-> score, grading_source |-> source]

\* a raw record without a `result` wrapper: apiResponse and result are one object
Bare(inner) ==
  [top |-> [student_id |-> inner.student_id, essay_type |-> inner.essay_type],
   inner |-> inner]

RawBody(moa, hmo, mean, essay, max, slots, just) ==
  [manual_override_applied |-> moa, has_manual_overrides |-> hmo,
   mean_score |-> mean, essay_score |-> essay, max_score |-> max,
   slots |-> slots, metric_justifications |-> just]

\* the rubric_used field of a record body
WithRubric(body, rubric) == [rubric_used |-> rubric] @@ body

\* the record bodies the page specification draws its batches from
RawBodies ==
  { \* sum mode, one AI-graded criterion with a justification
    WithRubric(
      RawBody(FALSE, FALSE, None, Some(Whole(3)), Some(4),
              << Slot(Some("content_understanding"), Some(3), None) >>,
              << [k |-> "content_understanding", v |-> "J1"] >>),
      Some("Winter_Hibiscus_Grade10")),
    \* override flag on the record, no criterion graded by a human; the same
    \* criterion under its legacy and its canonical name
    WithRubric(
      RawBody(TRUE, FALSE, None, Some(Whole(5)), None,
              << Slot(Some("contentUnderstanding"), Some(2), Some("ai")),
                 Slot(Some("content_understanding"), Some(3), Some("ai")) >>,
              <<>>),
      None),
    \* sum mode with the default maximum, a criterion graded by a human, a
    \* zero score and a criterion outside the rubric
    WithRubric(
      RawBody(FALSE, FALSE, None, Some(Whole(6)), None,
              << Slot(Some("writing_quality"), Some(4), Some("human")),
                 Slot(Some("overall_performance"), Some(0), Some("ai")),
                 Slot(Some("clarity"), Some(2), None) >>,
              << [k |-> "clarity", v |-> "J2"] >>),
      Some("Narrative")) }

StudentIds == {"S1", "S2"}

\* The uploaded essay data: null, {essays: [...]}, one essay as the whole
\* object, or an object of another form.  An essay has the optional fields
\* student_id, content_id, essay_response and essay_type.
NoEssayData == [kind |-> "null"]

Essay(id, content, response, type) ==
  [student_id |-> id, content_id |-> content, essay_response |-> response,
   essay_type |-> type]

Bulk(essays) == [kind |-> "bulk", essays |-> essays]

Single(essay) == [kind |-> "single", essay |-> essay]

OtherForm == [kind |-> "other"]

EssayTypes == {"E1", "E2"}

RawRecords ==
  { Bare([student_id |-> Some(id), essay_type |-> Some(et)] @@ b) :
      id \in StudentIds, et \in EssayTypes, b \in RawBodies }

\* a record with a `result` wrapper: apiResponse carries its own student_id
\* and essay_type, apiResponse.result the rest
Wrapped(topId, topType, inner) ==
  [top |-> [student_id |-> topId, essay_type |-> topType], inner |-> inner]

\* batches of 1..MaxBatch records; the first record is fixed up to renaming
RawBatches ==
  UNION { { r \in [1..n -> RawRecords] :
              /\ r[1].inner.student_id = Some("S1")
              /\ r[1].inner.essay_type = Some("E1") } : n \in 1..MaxBatch }

-----------------------------------------------------------------------------
(* processStudentResult *)

\* a || b for optional values whose present values are all truthy
OrElse(a, b) == IF a # None THEN a ELSE b

\* a || b for optional numbers: 0 is falsy
NumOr(a, b) == IF a # None /\ a[1] # 0 THEN a ELSE b

\* originalEssayData.essays.find(essay => essay.student_id === studentId)
findEssay(essays, studentId) ==
  LET hits == {i \in DOMAIN essays : essays[i].student_id = Some(studentId)} IN
  IF hits = {} THEN None
  ELSE Some(essays[CHOOSE i \in hits : \A j \in hits : i <= j])

\* the essay of the uploaded data with this student id, None for null and
\* for undefined
findOriginalEssay(studentId) ==
  IF essayData = NoEssayData THEN None
  ELSE IF essayData.kind = "bulk" THEN findEssay(essayData.essays, studentId)
  ELSE IF essayData.kind = "single" /\ essayData.essay.student_id = Some(studentId)
       THEN Some(essayData.essay)
  ELSE None

\* o.field of a record, undefined when the record has no such field
Field(o, field) == IF field \in DOMAIN o THEN o[field] ELSE None

\* originalEssay?.field
OriginalField(originalEssay, field) ==
  IF originalEssay = None THEN None ELSE Field(originalEssay[1], field)

\* essayType of the Submission
essayTypeOf(apiResponse, originalEssay) ==
  OrElse(apiResponse.top.essay_type,
         OrElse(apiResponse.inner.essay_type,
                OrElse(OriginalField(originalEssay, "essay_type"),
                       Some("Source Dependent Responses"))))[1]

\* an essayResponse that follows the chain of essayType
essayResponseOfWrapperFirst(apiResponse, originalEssay) ==
  OrElse(Field(apiResponse.top, "essay_response"),
         OrElse(Field(apiResponse.inner, "essay_response"),
                OrElse(OriginalField(originalEssay, "essay_response"), Some(""))))[1]

\* essayResponse of the Submission
essayResponseOf(apiResponse, originalEssay) ==
  OrElse(OriginalField(originalEssay, "essay_response"),
         OrElse(Field(apiResponse.top, "essay_response"),
                OrElse(Field(apiResponse.inner, "essay_response"), Some(""))))[1]

\* the slot i of a record, absent fields when the record has no such slot
slotOf(result, i) ==
  IF i \in DOMAIN result.slots THEN result.slots[i] ELSE Slot(None, None, None)

\* metricName && metricScore > 0
slotQualifies(sl) == sl.name # None /\ sl.score # None /\ sl.score[1] > 0

isManualSource(sl) ==
  sl.grading_source \in {Some("human"), Some("manual")}

slotRecord(result, sl, maxScore) ==
  [score |-> [num |-> sl.score[1], den |-> maxScore],
   grade |-> IF isManualSource(sl) THEN "Human Graded" ELSE "AI Graded",
   text |-> IF Has(result.metric_justifications, sl.name[1])
            THEN Get(result.metric_justifications, sl.name[1])
            ELSE "No detailed feedback available.",
   isManualOverride |-> isManualSource(sl)]

RECURSIVE buildFeedback(_, _, _, _)
\* the loop over the slots i..10, starting from the feedback object acc
buildFeedback(result, maxScore, i, acc) ==
  IF i > 10 THEN acc
  ELSE LET sl == slotOf(result, i) IN
       buildFeedback(result, maxScore, i + 1,
                     IF slotQualifies(sl)
                     THEN Put(acc, sl.name[1], slotRecord(result, sl, maxScore))
                     ELSE acc)

RECURSIVE totalRubric(_, _)
\* totalRubricScore accumulated over the slots i..10
totalRubric(result, i) ==
  IF i > 10 THEN 0
  ELSE LET sl == slotOf(result, i) IN
       (IF slotQualifies(sl) THEN sl.score[1] ELSE 0) + totalRubric(result, i + 1)

rubricCountOf(result) == Cardinality({i \in 1..10 : slotQualifies(slotOf(result, i))})

isMeanScoreOf(result) == result.manual_override_applied \/ result.mean_score # None

\* a maxScore that takes the mean semantics for the override flag only
maxScoreOfFlagOnly(result) ==
  IF result.manual_override_applied THEN 3 ELSE NumOr(result.max_score, Some(4))[1]

maxScoreOf(result) ==
  IF isMeanScoreOf(result) THEN 3 ELSE NumOr(result.max_score, Some(4))[1]

processStudentResult(apiResponse) ==
  LET result == apiResponse.inner
      studentId == OrElse(apiResponse.top.student_id,
                          OrElse(result.student_id, Some("Unknown")))[1]
      originalEssay == findOriginalEssay(studentId)
      essayScore == NumOr(result.mean_score, NumOr(result.essay_score, Some(0)))[1]
      maxScore == maxScoreOf(result)
      fb == buildFeedback(result, maxScore, 1, <<>>)
      hasManual == \/ \E i \in DOMAIN fb : fb[i].v.isManualOverride
                   \/ result.manual_override_applied
                   \/ result.has_manual_overrides
  IN [id |-> studentId,
      score |-> [num |-> IF isMeanScoreOf(result) THEN MathRound(essayScore) ELSE essayScore,
                 den |-> maxScore],
      essayScore |-> essayScore,
      maxScore |-> maxScore,
      aggregateScore |-> totalRubric(result, 1),
      maxAggregateScore |-> rubricCountOf(result) * maxScore,
      essayType |-> essayTypeOf(apiResponse, originalEssay),
      essayResponse |-> essayResponseOf(apiResponse, originalEssay),
      feedback |-> deduplicateFeedback(fb),
      rubricUsed |-> OrElse(result.rubric_used, Some(""))[1],
      hasManualOverrides |-> hasManual,
      isManualOverride |-> hasManual,
      generalFeedback |-> None,
      manualOverrideData |-> None]

\* the shapes of the results prop: null, an array of records, or one object,
\* which is a record itself and may carry a results array
NoResults == [kind |-> "null"]

ArrayOf(items) == [kind |-> "array", items |-> items]

ObjectOf(record, inResults) == [kind |-> "object", record |-> record, results |-> inResults]

processResults(apiResults) ==
  IF apiResults.kind = "null" THEN <<>>
  ELSE IF apiResults.kind = "array"
       THEN [i \in DOMAIN apiResults.items |-> processStudentResult(apiResults.items[i])]
  ELSE IF apiResults.record.top.student_id # None
       THEN <<processStudentResult(apiResults.record)>>
  ELSE IF apiResults.results # None
       THEN [i \in DOMAIN apiResults.results[1] |->
               processStudentResult(apiResults.results[1][i])]
  ELSE <<>>

-----------------------------------------------------------------------------
(* Strings that are searched: their characters *)

Chars(str) ==
  CASE str = "" -> <<>>
    [] str = " " -> <<" ">>
    [] str = "S1" -> <<"S", "1">>
    [] str = "S2" -> <<"S", "2">>
    [] str = "s2" -> <<"s", "2">>
    [] str = "HIB" -> <<"H", "I", "B">>
    [] str = "E1" -> <<"E", "1">>
    [] str = "E2" -> <<"E", "2">>
    [] str = "Narrative" -> <<"N", "a", "r", "r", "a", "t", "i", "v", "e">>
    [] str = "Winter_Hibiscus_Grade10" ->
         <<"W", "i", "n", "t", "e", "r", "_", "H", "i", "b", "i", "s", "c", "u", "s", "_",
           "G", "r", "a", "d", "e", "1", "0">>
    [] str = "Unknown" -> <<"U", "n", "k", "n", "o", "w", "n">>
    [] str = "123456" -> <<"1", "2", "3", "4", "5", "6">>
    [] str = "Unknown Essay" ->
         <<"U", "n", "k", "n", "o", "w", "n", " ", "E", "s", "s", "a", "y">>
    [] str = "Source Dependent Responses" ->
         <<"S", "o", "u", "r", "c", "e", " ", "D", "e", "p", "e", "n", "d", "e", "n", "t",
           " ", "R", "e", "s", "p", "o", "n", "s", "e", "s">>
    [] str = "Wintor Hibiscus Source Dependent Response" ->
         <<"W", "i", "n", "t", "o", "r", " ", "H", "i", "b", "i", "s", "c", "u", "s", " ",
           "S", "o", "u", "r", "c", "e", " ", "D", "e", "p", "e", "n", "d", "e", "n", "t",
           " ", "R", "e", "s", "p", "o", "n", "s", "e">>

\* the capital letters that occur in the strings above, and their lower case
UpperCase == <<"A", "B", "D", "E", "G", "H", "I", "N", "P", "R", "S", "T", "U", "W", "X">>

LowerCase == <<"a", "b", "d", "e", "g", "h", "i", "n", "p", "r", "s", "t", "u", "w", "x">>

isUpperCase(c) == \E i \in DOMAIN UpperCase : UpperCase[i] = c

lowerChar(c) ==
  IF isUpperCase(c) THEN LowerCase[CHOOSE i \in DOMAIN UpperCase : UpperCase[i] = c] ELSE c

toLowerCase(cs) == [i \in DOMAIN cs |-> lowerChar(cs[i])]

includes(hay, needle) ==
  \E i \in 0..(Len(hay) - Len(needle)) : SubSeq(hay, i + 1, i + Len(needle)) = needle

RECURSIVE split(_, _)
\* cs.split(sep) for a separator of one character
split(cs, sep) ==
  LET hits == {i \in DOMAIN cs : cs[i] = sep} IN
  IF hits = {} THEN <<cs>>
  ELSE LET first == CHOOSE i \in hits : \A j \in hits : i <= j
       IN <<SubSeq(cs, 1, first - 1)>> \o split(SubSeq(cs, first + 1, Len(cs)), sep)

RECURSIVE spaceBeforeCapitals(_)
\* cs.replace(/([A-Z])/g, ' $1')
spaceBeforeCapitals(cs) ==
  IF cs = <<>> THEN <<>>
  ELSE (IF isUpperCase(Head(cs)) THEN <<" ", Head(cs)>> ELSE <<Head(cs)>>)
         \o spaceBeforeCapitals(Tail(cs))

\* cs.trim()
trim(cs) ==
  LET inked == {i \in DOMAIN cs : cs[i] # " "} IN
  IF inked = {} THEN <<>>
  ELSE SubSeq(cs, CHOOSE i \in inked : \A j \in inked : i <= j,
                  CHOOSE i \in inked : \A j \in inked : j <= i)

\* str.trim() is a non-empty string
trimTruthy(cs) == trim(cs) # <<>>

-----------------------------------------------------------------------------
(* highlightFlaggedContent, on strings as sequences of characters *)

\* <span class="flagged-sentence">
OpenTag ==
  <<"<", "s", "p", "a", "n", " ", "c", "l", "a", "s", "s", "=", "\"", "f", "l", "a", "g",
    "g", "e", "d", "-", "s", "e", "n", "t", "e", "n", "c", "e", "\"", ">">>

\* </span>
CloseTag == <<"<", "/", "s", "p", "a", "n", ">">>

\* the escaped sentence, as a regular expression with flag i, matches hay at i
matchesAt(hay, i, needle) ==
  /\ i + Len(needle) - 1 <= Len(hay)
  /\ \A k \in 1..Len(needle) : lowerChar(hay[i + k - 1]) = lowerChar(needle[k])

RECURSIVE replaceAll(_, _, _)
\* hay.replace(regex, '<span class="flagged-sentence">$1</span>') with flag g,
\* from position i on: the matches are taken from left to right and do not overlap
replaceAll(hay, i, needle) ==
  IF i > Len(hay) THEN <<>>
  ELSE IF matchesAt(hay, i, needle)
       THEN OpenTag \o SubSeq(hay, i, i + Len(needle) - 1) \o CloseTag
              \o replaceAll(hay, i + Len(needle), needle)
       ELSE <<hay[i]>> \o replaceAll(hay, i + 1, needle)

RECURSIVE sortLongestFirst(_)
\* [...list].sort((a, b) => b.length - a.length): a stable sort
sortLongestFirst(list) ==
  IF list = <<>> THEN <<>>
  ELSE LET longest == {i \in DOMAIN list : \A j \in DOMAIN list : Len(list[j]) <= Len(list[i])}
           first == CHOOSE i \in longest : \A j \in longest : i <= j
       IN <<list[first]>>
            \o sortLongestFirst(SubSeq(list, 1, first - 1) \o SubSeq(list, first + 1, Len(list)))

RECURSIVE wrapEach(_, _)
\* the forEach over the sorted sentences, starting from highlightedText
wrapEach(highlightedText, sorted) ==
  IF sorted = <<>> THEN highlightedText
  ELSE wrapEach(IF trim(Head(sorted)) # <<>>
                THEN replaceAll(highlightedText, 1, Head(sorted))
                ELSE highlightedText,
                Tail(sorted))

highlightFlaggedContent(text, flaggedSentences) ==
  IF text = <<>> \/ flaggedSentences = None \/ Len(flaggedSentences[1]) = 0 THEN text
  ELSE wrapEach(text, sortLongestFirst(flaggedSentences[1]))

-----------------------------------------------------------------------------
(* ResultsPage: derived values of one render *)

mockStudents ==
  << [id |-> "123456",
      score |-> [num |-> 14, den |-> 21],
      essayScore |-> 0,
      maxScore |-> 0,
      aggregateScore |-> 0,
      maxAggregateScore |-> 0,
      essayType |-> "Wintor Hibiscus Source Dependent Response",
      essayResponse |-> "mock essay",
      feedback |->
        [i \in DOMAIN keyMappings |->
           [k |-> keyMappings[i].k,
            v |-> [score |-> [num |-> 2, den |-> 3], grade |-> "AI Graded",
                   text |-> "mock", isManualOverride |-> FALSE]]],
      rubricUsed |-> "",
      hasManualOverrides |-> FALSE,
      isManualOverride |-> FALSE,
      generalFeedback |-> None,
      manualOverrideData |-> None] >>

allStudentsOf(updated) ==
  IF Len(updated) > 0 THEN updated
  ELSE IF Len(students) > 0 THEN students ELSE mockStudents

allStudents == allStudentsOf(updatedStudents)

\* a Map that overwrites on every set: the last entry of every student id
getUniqueStudentsLast(studentList) ==
  LET lasts == {i \in DOMAIN studentList :
                  \A j \in DOMAIN studentList : studentList[j].id = studentList[i].id => j <= i}
      RECURSIVE pick(_)
      pick(i) == IF i > Len(studentList) THEN <<>>
                 ELSE (IF i \in lasts THEN <<studentList[i]>> ELSE <<>>) \o pick(i + 1)
  IN pick(1)

\* the first entry of every student id, in list order
getUniqueStudents(studentList) ==
  LET firsts == {i \in DOMAIN studentList :
                   \A j \in DOMAIN studentList : studentList[j].id = studentList[i].id => i <= j}
      RECURSIVE pick(_)
      pick(i) == IF i > Len(studentList) THEN <<>>
                 ELSE (IF i \in firsts THEN <<studentList[i]>> ELSE <<>>) \o pick(i + 1)
  IN pick(1)

\* name is the characters of the display name
parseRubricName(rubricUsed, essayType) ==
  LET parts == split(Chars(rubricUsed), "_") IN
  [name |-> IF rubricUsed = "" THEN Chars("Unknown Essay")
            ELSE IF Len(parts) >= 2
                 THEN trim(spaceBeforeCapitals(parts[1] \o <<" ">> \o parts[2]))
                 ELSE Chars(rubricUsed),
   subtype |-> IF essayType = "" THEN "Source Dependent Response" ELSE essayType]

\* a filter that compares the query as typed with the lower-cased fields
searchMatchesQueryAsTyped(student, query) ==
  LET q == Chars(query) IN
    \/ includes(toLowerCase(Chars(student.id)), q)
    \/ includes(toLowerCase(Chars(student.essayType)), q)
    \/ includes(toLowerCase(parseRubricName(student.rubricUsed, student.essayType).name), q)

searchMatches(student, query) ==
  LET q == toLowerCase(Chars(query)) IN
    \/ includes(toLowerCase(Chars(student.id)), q)
    \/ includes(toLowerCase(Chars(student.essayType)), q)
    \/ includes(toLowerCase(parseRubricName(student.rubricUsed, student.essayType).name), q)

displayStudentsOf(updated, query) ==
  IF trimTruthy(Chars(query))
  THEN SelectSeq(getUniqueStudents(allStudentsOf(updated)), LAMBDA st : searchMatches(st, query))
  ELSE getUniqueStudents(allStudentsOf(updated))

displayStudents == displayStudentsOf(updatedStudents, searchQuery)

\* the first index of allStudents that holds a Submission of this student id
firstIndexOfId(list, id) ==
  LET hits == {i \in DOMAIN list : list[i].id = id} IN
  IF hits = {} THEN 0 ELSE CHOOSE i \in hits : \A j \in hits : i <= j

\* getCurrentStudentData on the stored list all and the displayed list
\* display, for the index and the essay type filter of the page: the index
\* (into the stored list) of the Submission it returns, 0 when it returns {}
activeIndexFor(all, display, index, filter) ==
  LET n == Len(display) IN
  IF index >= n /\ n > 0 THEN firstIndexOfId(all, display[1].id)
  ELSE IF index >= n \/ index < 0 THEN 0
  ELSE
    LET baseStudent == display[index + 1]
        specific == {i \in DOMAIN all :
                       /\ all[i].id = baseStudent.id
                       /\ filter # None
                       /\ all[i].essayType = filter[1]}
    IN IF specific # {}
       THEN CHOOSE i \in specific : \A j \in specific : i <= j
       ELSE firstIndexOfId(all, baseStudent.id)

\* the index (into the stored list) of the Submission the page shows for the
\* stored list `updated`, 0 when it shows none
activeIndexOf(updated) ==
  activeIndexFor(allStudentsOf(updated), displayStudentsOf(updated, searchQuery),
                 currentStudent, selectedEssayTypeFilter)

activeIndex == activeIndexOf(updatedStudents)

\* getCurrentStudentData(): <<>> for {}, else the Submission with its feedback de-duplicated
currentStudentDataOf(updated) ==
  IF activeIndexOf(updated) = 0 THEN None
  ELSE Some([allStudentsOf(updated)[activeIndexOf(updated)]
               EXCEPT !.feedback = deduplicateFeedback(@)])

getCurrentStudentData == currentStudentDataOf(updatedStudents)

\* the entries of "Essays Graded" for the current student, in order of first
\* occurrence; name and subtype of an entry follow from the two fields kept
getCurrentStudentEssayTypes ==
  IF getCurrentStudentData = None THEN <<>>
  ELSE LET id == getCurrentStudentData[1].id
           mine == SelectSeq(allStudents, LAMBDA st : st.id = id /\ st.essayType # "")
           info(st) == [rubricUsed |-> st.rubricUsed, essayType |-> st.essayType]
           RECURSIVE uniq(_, _)
           uniq(i, seen) ==
             IF i > Len(mine) THEN <<>>
             ELSE IF info(mine[i]) \in seen THEN uniq(i + 1, seen)
             ELSE <<info(mine[i])>> \o uniq(i + 1, seen \cup {info(mine[i])})
       IN uniq(1, {})

\* the re-render after a state change: an index beyond the displayed list is reset to 0
renderedIndex(index, updated, query) ==
  LET n == Len(displayStudentsOf(updated, query)) IN
  IF index >= n /\ n > 0 THEN 0 ELSE index

-----------------------------------------------------------------------------
(* EditScoreModal *)

defaultAIFeedback == "The essay demonstrates a basic understanding of the text"

\* the maxScore prop: currentStudentData?.maxScore || 4
modalMaxScore ==
  IF getCurrentStudentData # None /\ getCurrentStudentData[1].maxScore # 0
  THEN getCurrentStudentData[1].maxScore ELSE 4

\* the currentFeedback prop: currentStudentData?.feedback || {}
currentFeedback ==
  IF getCurrentStudentData # None THEN getCurrentStudentData[1].feedback ELSE <<>>

\* the currentGeneralFeedback prop; '' and undefined are both falsy
currentGeneralFeedback ==
  IF getCurrentStudentData # None /\ getCurrentStudentData[1].generalFeedback # None
  THEN getCurrentStudentData[1].generalFeedback[1] ELSE ""

\* the studentId prop: currentStudentData?.id || ''
modalStudentId ==
  IF getCurrentStudentData # None THEN getCurrentStudentData[1].id ELSE ""

defaultScores(maxScore) ==
  [i \in DOMAIN rubricSections |-> [k |-> rubricSections[i], v |-> maxScore \div 2]]

defaultGradingSource ==
  [i \in DOMAIN rubricSections |-> [k |-> rubricSections[i], v |-> "ai"]]

\* the entries of currentFeedback whose score string is non-empty
scoredEntries(cf) == SelectSeq(cf, LAMBDA e : Truthy(e.v))

\* useEffect: {...defaultScores, ...initialScores}
initialScoresOf(cf, maxScore) ==
  Spread(defaultScores(maxScore),
         [i \in DOMAIN scoredEntries(cf) |->
            [k |-> scoredEntries(cf)[i].k, v |-> scoredEntries(cf)[i].v.score.num]])

\* useEffect: the grading source of every section, 'human' only where the record says so
initialGradingSourceOf(cf) ==
  Spread(defaultGradingSource,
         [i \in DOMAIN scoredEntries(cf) |->
            [k |-> scoredEntries(cf)[i].k,
             v |-> IF scoredEntries(cf)[i].v.isManualOverride THEN "human" ELSE "ai"]])

anyHuman(gs) == \E i \in DOMAIN gs : gs[i].v = "human"

RECURSIVE mergeFeedback(_, _, _, _)
\* handleSave: the forEach over Object.entries(scores), from entry i on
mergeFeedback(updated, sc, gs, maxScore) ==
  IF sc = <<>> THEN updated
  ELSE LET section == Head(sc).k
           isManual == Has(gs, section) /\ Get(gs, section) = "human"
           exists == Has(updated, section) /\ Truthy(Get(updated, section))
       IN mergeFeedback(
            IF exists \/ isManual
            THEN Put(updated, section,
                     [score |-> [num |-> Head(sc).v, den |-> maxScore],
                      grade |-> IF isManual THEN "Human Graded" ELSE "AI Graded",
                      text |-> IF exists THEN Get(updated, section).text ELSE "",
                      isManualOverride |-> isManual])
            ELSE updated,
            Tail(sc), gs, maxScore)

\* handleSave: the object passed to onSave
scoreDataOf(sc, gs, text, cf, maxScore, studentId) ==
  LET totalScore == SumSeq([i \in DOMAIN sc |-> sc[i].v])
      numSections == Len(sc)
  IN [score |-> [num |-> RoundDiv(totalScore, numSections), den |-> maxScore],
      meanScore |-> RoundDiv(totalScore, numSections),
      scores |-> sc,
      gradingSource |-> gs,
      feedback |-> mergeFeedback(cf, sc, gs, maxScore),
      generalFeedback |-> text,
      hasManualOverrides |-> anyHuman(gs),
      studentId |-> studentId]

\* findIndex(student => student.id === scoreData.studentId), 0 for -1
saveIndex(list, scoreData) == firstIndexOfId(list, scoreData.studentId)

\* a handleSaveScore that leaves the two override flags of the Submission as they were
handleSaveScoreStaleFlags(updated, scoreData, now) ==
  LET list == allStudentsOf(updated)
      meanScore == Whole(IF scoreData.meanScore # 0 THEN scoreData.meanScore
                         ELSE scoreData.score.num)
      studentIndex == saveIndex(list, scoreData)
  IN IF studentIndex = 0 THEN updated
     ELSE [list EXCEPT ![studentIndex] =
             [@ EXCEPT !.score = [num |-> MathRound(meanScore), den |-> 3],
                       !.essayScore = meanScore,
                       !.maxScore = 3,
                       !.feedback = scoreData.feedback,
                       !.generalFeedback = Some(scoreData.generalFeedback),
                       !.manualOverrideData =
                          Some([scores |-> scoreData.scores,
                                gradingSource |-> scoreData.gradingSource,
                                overrideTimestamp |-> now])]]

\* handleSaveScore: the new value of updatedStudents
handleSaveScoreResult(updated, scoreData, now) ==
  LET list == allStudentsOf(updated)
      meanScore == Whole(IF scoreData.meanScore # 0 THEN scoreData.meanScore
                         ELSE scoreData.score.num)
      studentIndex == saveIndex(list, scoreData)
  IN IF studentIndex = 0 THEN updated
     ELSE [list EXCEPT ![studentIndex] =
             [@ EXCEPT !.score = [num |-> MathRound(meanScore), den |-> 3],
                       !.essayScore = meanScore,
                       !.maxScore = 3,
                       !.isManualOverride = scoreData.hasManualOverrides,
                       !.hasManualOverrides = scoreData.hasManualOverrides,
                       !.feedback = scoreData.feedback,
                       !.generalFeedback = Some(scoreData.generalFeedback),
                       !.manualOverrideData =
                          Some([scores |-> scoreData.scores,
                                gradingSource |-> scoreData.gradingSource,
                                overrideTimestamp |-> now])]]

-----------------------------------------------------------------------------
(* Inputs of the reviewer *)

\* nothing, an id in lower case, part of a rubric name in capitals, a blank
SearchQueries == {"", "s2", "HIB", " "}

\* the rubric sections the reviewer changes in this model
ReviewedSections == {"content_understanding"}

ReviewerTexts == {"R1"}

-----------------------------------------------------------------------------
(* Initial states *)

ModalInit ==
  /\ isEditModalOpen = FALSE
  /\ scores = defaultScores(4)
  /\ gradingSource = defaultGradingSource
  /\ feedback = defaultAIFeedback
  /\ originalAIFeedback = ""
  /\ clock = 0

DedupIdle ==
  /\ dfInput = <<>>
  /\ dfResult = None
  /\ dfPrior = None
  /\ dfReread = None

HighlightIdle ==
  /\ hlText = <<>>
  /\ hlFlagged = None
  /\ hlResult = None

\* UploadPage as it is mounted
UploadMounted ==
  /\ selectedFile = None
  /\ uploadProgress = 0
  /\ isUploading = FALSE
  /\ uploadComplete = FALSE
  /\ pageEssayData = NoEssayData
  /\ parseError = None
  /\ reads = <<>>
  /\ intervals = 0

\* GradingPage before its mount effect
GradingMounted ==
  /\ isGrading = FALSE
  /\ error = None
  /\ currentStep = 0
  /\ inFlight = 0
  /\ pendingResults = None
  /\ completions = 0

\* the results page is rendered without uploaded essay data, and the other
\* pages are not on the screen
FlowIdle ==
  /\ currentPage = "results"
  /\ essayData = NoEssayData
  /\ gradingResults = NoResults
  /\ UploadMounted
  /\ selections = 0
  /\ GradingMounted

Init ==
  /\ FlowIdle
  /\ results \in {ArrayOf(batch) : batch \in RawBatches}
  /\ students = processResults(results)
  /\ updatedStudents = <<>>
  /\ currentStudent = 0
  /\ searchQuery = ""
  /\ selectedEssayTypeFilter = None
  /\ ModalInit
  /\ DedupIdle
  /\ HighlightIdle

-----------------------------------------------------------------------------
(* ResultsPage handlers.  The modal overlay covers the page, so the page's  *)
(* own controls are used only while the modal is closed.                    *)

modalVars == <<scores, gradingSource, feedback, originalAIFeedback>>

handlePrevStudent ==
  /\ ~isEditModalOpen
  /\ Len(displayStudents) > 0
  /\ currentStudent # 0
  /\ currentStudent' =
       renderedIndex(IF currentStudent - 1 > 0 THEN currentStudent - 1 ELSE 0,
                     updatedStudents, searchQuery)
  /\ selectedEssayTypeFilter' = None
  /\ UNCHANGED <<results, students, updatedStudents, searchQuery, isEditModalOpen, clock>>
  /\ UNCHANGED modalVars
  /\ UNCHANGED <<dfVars, hlVars, flowVars>>

handleNextStudent ==
  /\ ~isEditModalOpen
  /\ Len(displayStudents) > 0
  /\ currentStudent # Len(displayStudents) - 1
  /\ currentStudent' =
       renderedIndex(IF currentStudent + 1 < Len(displayStudents) - 1
                     THEN currentStudent + 1 ELSE Len(displayStudents) - 1,
                     updatedStudents, searchQuery)
  /\ selectedEssayTypeFilter' = None
  /\ UNCHANGED <<results, students, updatedStudents, searchQuery, isEditModalOpen, clock>>
  /\ UNCHANGED modalVars
  /\ UNCHANGED <<dfVars, hlVars, flowVars>>

handleSearchChange ==
  /\ ~isEditModalOpen
  /\ \E q \in SearchQueries :
       /\ q # searchQuery
       /\ searchQuery' = q
       /\ currentStudent' = renderedIndex(0, updatedStudents, q)
  /\ UNCHANGED <<results, students, updatedStudents, selectedEssayTypeFilter, isEditModalOpen, clock>>
  /\ UNCHANGED modalVars
  /\ UNCHANGED <<dfVars, hlVars, flowVars>>

\* the clear-search button
clearSearch ==
  /\ ~isEditModalOpen
  /\ searchQuery # ""
  /\ searchQuery' = ""
  /\ currentStudent' = renderedIndex(0, updatedStudents, "")
  /\ UNCHANGED <<results, students, updatedStudents, selectedEssayTypeFilter, isEditModalOpen, clock>>
  /\ UNCHANGED modalVars
  /\ UNCHANGED <<dfVars, hlVars, flowVars>>

\* the "Clear all filters" button of the empty list
clearAllFilters ==
  /\ ~isEditModalOpen
  /\ Len(displayStudents) = 0
  /\ searchQuery # "" \/ selectedEssayTypeFilter # None
  /\ searchQuery' = ""
  /\ selectedEssayTypeFilter' = None
  /\ currentStudent' = renderedIndex(0, updatedStudents, "")
  /\ UNCHANGED <<results, students, updatedStudents, isEditModalOpen, clock>>
  /\ UNCHANGED modalVars
  /\ UNCHANGED <<dfVars, hlVars, flowVars>>

\* click on an entry of "Essays Graded"
selectEssayType ==
  /\ ~isEditModalOpen
  /\ Len(displayStudents) > 0
  /\ \E i \in DOMAIN getCurrentStudentEssayTypes :
       selectedEssayTypeFilter' =
         IF selectedEssayTypeFilter = Some(getCurrentStudentEssayTypes[i].essayType)
         THEN None ELSE Some(getCurrentStudentEssayTypes[i].essayType)
  /\ UNCHANGED <<results, students, updatedStudents, currentStudent, searchQuery, isEditModalOpen, clock>>
  /\ UNCHANGED modalVars
  /\ UNCHANGED <<dfVars, hlVars, flowVars>>

\* handleEditScore, then the modal's useEffect for isOpen
handleEditScore ==
  /\ ~isEditModalOpen
  /\ Len(displayStudents) > 0
  /\ clock < MaxSaves
  /\ isEditModalOpen' = TRUE
  /\ scores' = initialScoresOf(currentFeedback, modalMaxScore)
  /\ gradingSource' = initialGradingSourceOf(currentFeedback)
  /\ originalAIFeedback' =
       IF currentGeneralFeedback # "" THEN currentGeneralFeedback ELSE defaultAIFeedback
  /\ feedback' = currentGeneralFeedback
  /\ UNCHANGED <<results, students, updatedStudents, currentStudent, searchQuery,
                 selectedEssayTypeFilter, clock>>
  /\ UNCHANGED <<dfVars, hlVars, flowVars>>

-----------------------------------------------------------------------------
(* EditScoreModal handlers *)

\* a radio button of another score than the selected one
handleScoreChange ==
  /\ isEditModalOpen
  /\ \E section \in ReviewedSections, score \in 0..modalMaxScore :
       /\ score # Get(scores, section)
       /\ scores' = Put(scores, section, score)
       /\ gradingSource' = Put(gradingSource, section, "human")
  /\ UNCHANGED <<results, students, updatedStudents, currentStudent, searchQuery,
                 selectedEssayTypeFilter, isEditModalOpen, feedback,
                 originalAIFeedback, clock>>
  /\ UNCHANGED <<dfVars, hlVars, flowVars>>

\* the textarea, rendered once some section is graded by the reviewer
setFeedback ==
  /\ isEditModalOpen
  /\ anyHuman(gradingSource)
  /\ \E text \in ReviewerTexts :
       /\ text # feedback
       /\ feedback' = text
  /\ UNCHANGED <<results, students, updatedStudents, currentStudent, searchQuery,
                 selectedEssayTypeFilter, isEditModalOpen, scores, gradingSource,
                 originalAIFeedback, clock>>
  /\ UNCHANGED <<dfVars, hlVars, flowVars>>

\* handleSave: onSave(scoreData), i.e. handleSaveScore, then onClose
handleSave ==
  /\ isEditModalOpen
  /\ clock < MaxSaves
  /\ updatedStudents' =
       handleSaveScoreResult(updatedStudents,
                             scoreDataOf(scores, gradingSource, feedback, currentFeedback,
                                         modalMaxScore, modalStudentId),
                             clock + 1)
  /\ clock' = clock + 1
  /\ isEditModalOpen' = FALSE
  /\ currentStudent' = renderedIndex(currentStudent, updatedStudents', searchQuery)
  /\ UNCHANGED <<results, students, searchQuery, selectedEssayTypeFilter>>
  /\ UNCHANGED modalVars
  /\ UNCHANGED <<dfVars, hlVars, flowVars>>

\* a close that hands the modal's scores to onSave before onClose
handleCancelThatSaves ==
  /\ isEditModalOpen
  /\ updatedStudents' =
       handleSaveScoreResult(updatedStudents,
                             scoreDataOf(scores, gradingSource, feedback, currentFeedback,
                                         modalMaxScore, modalStudentId),
                             clock)
  /\ isEditModalOpen' = FALSE
  /\ UNCHANGED <<results, students, currentStudent, searchQuery,
                 selectedEssayTypeFilter, clock>>
  /\ UNCHANGED modalVars
  /\ UNCHANGED <<dfVars, hlVars, flowVars>>

\* handleCancel, the close button and a click on the overlay: onClose
handleCancel ==
  /\ isEditModalOpen
  /\ isEditModalOpen' = FALSE
  /\ UNCHANGED <<results, students, updatedStudents, currentStudent, searchQuery,
                 selectedEssayTypeFilter, clock>>
  /\ UNCHANGED modalVars
  /\ UNCHANGED <<dfVars, hlVars, flowVars>>

\* the override session: essay-type selection, navigation, the modal and its saves
Next ==
  \/ handlePrevStudent
  \/ handleNextStudent
  \/ selectEssayType
  \/ handleEditScore
  \/ handleScoreChange
  \/ setFeedback
  \/ handleSave
  \/ handleCancel

Spec == Init /\ [][Next]_vars

\* the results view without the modal: navigation, search and essay-type selection
NavNext ==
  \/ handlePrevStudent
  \/ handleNextStudent
  \/ handleSearchChange
  \/ clearSearch
  \/ clearAllFilters
  \/ selectEssayType

SpecNav == Init /\ [][NavNext]_vars

-----------------------------------------------------------------------------
(* deduplicateFeedback as a function of its argument *)

DedupKeys ==
  {"content_understanding", "contentUnderstanding", "writing_quality", "writingQuality"}
    \cup UnknownKeys

ScoreRecordOf(n) ==
  [score |-> [num |-> n, den |-> 4], grade |-> "AI Graded", text |-> "t",
   isManualOverride |-> FALSE]

\* a record, a record with a zero score, and an empty value
DedupValues == {ScoreRecordOf(3), ScoreRecordOf(0), Null}

FeedbackObjects ==
  UNION { { o \in [1..n -> [k : DedupKeys, v : DedupValues]] : DistinctKeys(o) } :
            n \in 0..MaxFbLen }

PageIdle ==
  /\ results = NoResults
  /\ students = <<>>
  /\ updatedStudents = <<>>
  /\ currentStudent = 0
  /\ searchQuery = ""
  /\ selectedEssayTypeFilter = None
  /\ ModalInit

DedupInit ==
  /\ PageIdle
  /\ dfInput \in FeedbackObjects
  /\ dfResult = None
  /\ dfPrior = None
  /\ dfReread = None
  /\ HighlightIdle
  /\ FlowIdle

\* processStudentResult and getCurrentStudentData: deduplicateFeedback(feedback)
DedupCall ==
  /\ dfResult = None
  /\ dfResult' = Some(deduplicateFeedback(dfInput))
  /\ UNCHANGED <<dfInput, dfPrior, dfReread>>
  /\ UNCHANGED <<pageVars, hlVars, flowVars>>

\* the same call on an object with the same entries inserted in another order
DedupReordered ==
  /\ dfResult # None
  /\ dfPrior = None
  /\ dfReread = None
  /\ \E p \in Permutations(DOMAIN dfInput) :
       /\ dfInput' = [i \in DOMAIN dfInput |-> dfInput[p[i]]]
       /\ dfInput' # dfInput
  /\ dfPrior' = dfResult
  /\ dfResult' = Some(deduplicateFeedback(dfInput'))
  /\ UNCHANGED dfReread
  /\ UNCHANGED <<pageVars, hlVars, flowVars>>

\* getCurrentStudentData: the stored result is de-duplicated again on every read
DedupReread ==
  /\ dfResult # None
  /\ dfReread = None
  /\ dfReread' = Some(deduplicateFeedback(dfResult[1]))
  /\ UNCHANGED <<dfInput, dfResult, dfPrior>>
  /\ UNCHANGED <<pageVars, hlVars, flowVars>>

DedupNext == DedupCall \/ DedupReordered \/ DedupReread

SpecDedup == DedupInit /\ [][DedupNext]_vars

\* a criterion of the input that is present under both of its keys
BothForms(o, i) == Has(o, keyMappings[i].k) /\ Has(o, keyMappings[i].v)

\* C8: when the argument holds both the canonical and the legacy key of a
\* criterion, the result holds the canonical key with the canonical key's
\* value and does not hold the legacy key, whatever the canonical value is.
CanonicalWins ==
  dfResult # None =>
    \A i \in DOMAIN keyMappings :
      BothForms(dfInput, i) =>
        /\ Has(dfResult[1], keyMappings[i].v)
        /\ Get(dfResult[1], keyMappings[i].v) = Get(dfInput, keyMappings[i].v)
        /\ ~Has(dfResult[1], keyMappings[i].k)

\* both forms were given, the legacy one first, the canonical one empty or zero
CanonicalWinsWitness ==
  /\ dfResult # None
  /\ \E i \in DOMAIN keyMappings :
       /\ BothForms(dfInput, i)
       /\ Get(dfInput, keyMappings[i].v) \in {Null, ScoreRecordOf(0)}
       /\ Get(dfInput, keyMappings[i].k) = ScoreRecordOf(3)
       /\ dfInput[1].k = keyMappings[i].k
       /\ ~Has(dfResult[1], keyMappings[i].k)

LegacyKeys == {keyMappings[i].k : i \in DOMAIN keyMappings}

\* C9: the result has one entry per key and never both keys of one criterion;
\* a legacy key is kept exactly when its canonical key is not in the argument;
\* every other key of the argument is passed through with its value, and the
\* result holds no key the argument did not hold.
OneEntryPerCriterion ==
  dfResult # None =>
    /\ DistinctKeys(dfResult[1])
    /\ \A i \in DOMAIN keyMappings :
         /\ ~BothForms(dfResult[1], i)
         /\ Has(dfResult[1], keyMappings[i].k) <=>
              (Has(dfInput, keyMappings[i].k) /\ ~Has(dfInput, keyMappings[i].v))
    /\ \A key \in Keys(dfInput) \ LegacyKeys :
         Has(dfResult[1], key) /\ Get(dfResult[1], key) = Get(dfInput, key)
    /\ Entries(dfResult[1]) \subseteq Entries(dfInput)

\* a dropped legacy key and a key outside the rubric in one argument
OneEntryPerCriterionWitness ==
  /\ dfResult # None
  /\ Has(dfInput, "contentUnderstanding") /\ ~Has(dfResult[1], "contentUnderstanding")
  /\ Has(dfInput, "clarity") /\ Has(dfResult[1], "clarity")
  /\ Len(dfResult[1]) = 2

\* C10: two arguments with the same entries in different key orders give
\* results with the same entries, and de-duplicating a result returns it.
OrderIndependentIdempotent ==
  /\ dfPrior # None => Entries(dfPrior[1]) = Entries(dfResult[1])
  /\ dfReread # None => dfReread[1] = dfResult[1]

\* a reordered argument with a legacy key before its canonical key, re-read
OrderIndependentIdempotentWitness ==
  /\ dfPrior # None
  /\ dfReread # None
  /\ \E i \in DOMAIN keyMappings :
       /\ BothForms(dfInput, i)
       /\ dfInput[1].k = keyMappings[i].k
  /\ Len(dfResult[1]) < Len(dfInput)

-----------------------------------------------------------------------------
(* The stored Submissions and their score records *)

\* the feedback map a Submission exposes
exposedFeedback(sub) == deduplicateFeedback(sub.feedback)

sumOfRecords(sub) ==
  SumSeq([j \in DOMAIN exposedFeedback(sub) |-> exposedFeedback(sub)[j].v.score.num])

hasHumanRecord(sub) ==
  \E j \in DOMAIN exposedFeedback(sub) : exposedFeedback(sub)[j].v.isManualOverride

\* the Submission is the result of an override save
savedByOverride(sub) == sub.manualOverrideData # None

\* C1: the aggregate score of every stored Submission is the sum of the scores
\* of the score records in the feedback map it exposes.
AggregateIsSumOfRecords ==
  \A i \in DOMAIN allStudents : allStudents[i].aggregateScore = sumOfRecords(allStudents[i])

rawFlagged(i) ==
  \/ results.items[i].inner.manual_override_applied
  \/ results.items[i].inner.has_manual_overrides
  \/ \E n \in 1..10 : /\ slotQualifies(slotOf(results.items[i].inner, n))
                      /\ isManualSource(slotOf(results.items[i].inner, n))

markedHuman(sub) ==
  savedByOverride(sub) /\ anyHuman(sub.manualOverrideData[1].gradingSource)

meanMode(sub) == sub.hasManualOverrides /\ sub.maxScore = 3 /\ sub.score.den = 3

\* C3: a stored Submission that an override save has marked as human keeps,
\* in every later state, the override flag, maxScore 3 and a score over 3.
HumanMarkIsPermanent ==
  [][\A i \in DOMAIN updatedStudents :
       markedHuman(updatedStudents[i]) =>
         /\ i \in DOMAIN updatedStudents'
         /\ meanMode(updatedStudents'[i])]_vars

\* C4: after an override save the mean score of the Submission is the rounded
\* mean of the scores of the score records it contains.
MeanIsMeanOfRecords ==
  \A i \in DOMAIN allStudents :
    (savedByOverride(allStudents[i]) /\ exposedFeedback(allStudents[i]) # <<>>) =>
      /\ allStudents[i].essayScore =
           Whole(RoundDiv(sumOfRecords(allStudents[i]), Len(exposedFeedback(allStudents[i]))))
      /\ allStudents[i].score.num = allStudents[i].essayScore

\* opening the modal on the Submission shown for the stored list `updated`
\* and saving without a change: handleEditScore, then handleSave
untouchedSave(updated, now) ==
  LET data == currentStudentDataOf(updated)
      cf == IF data # None THEN data[1].feedback ELSE <<>>
      max == IF data # None /\ data[1].maxScore # 0 THEN data[1].maxScore ELSE 4
      text == IF data # None /\ data[1].generalFeedback # None
              THEN data[1].generalFeedback[1] ELSE ""
      id == IF data # None THEN data[1].id ELSE ""
  IN handleSaveScoreResult(updated,
                           scoreDataOf(initialScoresOf(cf, max), initialGradingSourceOf(cf),
                                       text, cf, max, id),
                           now)

withoutTimestamps(list) ==
  [i \in DOMAIN list |->
     IF list[i].manualOverrideData = None THEN list[i]
     ELSE [list[i] EXCEPT !.manualOverrideData =
             Some([@[1] EXCEPT !.overrideTimestamp = 0])]]

\* C5: saving the shown Submission without a change once, or twice in a row,
\* gives the same stored Submissions apart from the override timestamp.
UntouchedSaveIdempotent ==
  (~isEditModalOpen /\ Len(displayStudents) > 0) =>
    withoutTimestamps(untouchedSave(updatedStudents, clock + 1)) =
      withoutTimestamps(untouchedSave(untouchedSave(updatedStudents, clock + 1), clock + 2))

\* C6: whenever the modal is open, the text it presents as the original AI
\* feedback is the one presented before the first override.
OriginalFeedbackKept ==
  isEditModalOpen => originalAIFeedback = defaultAIFeedback

\* C7: an override save changes no stored Submission other than the one shown.
SaveReplacesShownOnly ==
  [][clock' = clock + 1 =>
       \A i \in DOMAIN allStudents :
         i # activeIndex => allStudentsOf(updatedStudents')[i] = allStudents[i]]_vars

-----------------------------------------------------------------------------
(* The student list and the essay types of a student *)

\* the essay types of the stored Submissions of a student id
essayTypesOfId(id) == {allStudents[i].essayType : i \in {j \in DOMAIN allStudents : allStudents[j].id = id}}

\* C11: getUniqueStudents returns one entry per student id of the stored
\* list, the first Submission of that id, in the order of first occurrence;
\* the essay types listed for the shown student are the essay types of all
\* stored Submissions of that student, and a listed essay type that is
\* selected is the essay type of the Submission shown.
UniqueIsFirstPerId ==
  LET unique == getUniqueStudents(allStudents) IN
    /\ {unique[i].id : i \in DOMAIN unique} = {allStudents[i].id : i \in DOMAIN allStudents}
    /\ \A i, j \in DOMAIN unique : i < j =>
          /\ unique[i].id # unique[j].id
          /\ firstIndexOfId(allStudents, unique[i].id) < firstIndexOfId(allStudents, unique[j].id)
    /\ \A i \in DOMAIN unique :
          unique[i] = allStudents[firstIndexOfId(allStudents, unique[i].id)]
    /\ getCurrentStudentData # None =>
          /\ {getCurrentStudentEssayTypes[i].essayType : i \in DOMAIN getCurrentStudentEssayTypes} =
               essayTypesOfId(getCurrentStudentData[1].id)
          /\ \A t \in essayTypesOfId(getCurrentStudentData[1].id) :
               selectedEssayTypeFilter = Some(t) => getCurrentStudentData[1].essayType = t

\* a student with Submissions of two essay types and different content: one
\* entry in the list, and the second essay type selected and shown
UniqueIsFirstPerIdWitness ==
  /\ Len(allStudents) = 2
  /\ allStudents[1].id = allStudents[2].id
  /\ allStudents[1].essayType # allStudents[2].essayType
  /\ allStudents[1].feedback # allStudents[2].feedback
  /\ Len(getUniqueStudents(allStudents)) = 1
  /\ {getCurrentStudentEssayTypes[i].essayType : i \in DOMAIN getCurrentStudentEssayTypes} =
       {allStudents[1].essayType, allStudents[2].essayType}
  /\ selectedEssayTypeFilter = Some(allStudents[2].essayType)
  /\ getCurrentStudentData[1].essayType = allStudents[2].essayType
  /\ getCurrentStudentData[1].aggregateScore = allStudents[2].aggregateScore

\* C12: no two stored Submissions have the same student id and essay type.
OneSubmissionPerPair ==
  \A i, j \in DOMAIN allStudents :
    (allStudents[i].id = allStudents[j].id /\ allStudents[i].essayType = allStudents[j].essayType)
      => i = j

-----------------------------------------------------------------------------
(* The search filter *)

\* the characters q occur in the characters field, letter case ignored
containsIgnoringCase(field, q) ==
  \E k \in 0..(Len(field) - Len(q)) :
    \A i \in 1..Len(q) : lowerChar(field[k + i]) = lowerChar(q[i])

\* the query occurs in the student id, the essay type or the rubric display name
matchesQuery(student, q) ==
  \/ containsIgnoringCase(Chars(student.id), q)
  \/ containsIgnoringCase(Chars(student.essayType), q)
  \/ containsIgnoringCase(parseRubricName(student.rubricUsed, student.essayType).name, q)

matchingUnique(q) ==
  SelectSeq(getUniqueStudents(allStudents), LAMBDA st : matchesQuery(st, q))

isBlank(q) == \A i \in DOMAIN q : q[i] = " "

\* C13: for every query the displayed list is the unique Submissions whose
\* id, essay type or rubric display name contains the query, case ignored.
SearchShowsExactlyMatches ==
  displayStudents = matchingUnique(Chars(searchQuery))

\* C13, amended: a query of blanks only (the empty query included) displays
\* all unique Submissions; every other query displays the unique Submissions
\* whose id, essay type or rubric display name contains the query as typed,
\* blanks included, case ignored.
SearchShowsMatchesUnlessBlank ==
  displayStudents =
    IF isBlank(Chars(searchQuery)) THEN getUniqueStudents(allStudents)
    ELSE matchingUnique(Chars(searchQuery))

\* a query in capitals that only the rubric display name of one of two
\* students contains, in other letter case
SearchShowsMatchesUnlessBlankWitness ==
  /\ searchQuery = "HIB"
  /\ Len(getUniqueStudents(allStudents)) = 2
  /\ Len(displayStudents) = 1
  /\ displayStudents[1].rubricUsed = "Winter_Hibiscus_Grade10"
  /\ displayStudents[1].id = "S2"

-----------------------------------------------------------------------------
(* The whole page: the override session together with the search *)

\* every handler of the page and of the modal that takes no typed comment
PageNext ==
  \/ handlePrevStudent
  \/ handleNextStudent
  \/ handleSearchChange
  \/ clearSearch
  \/ clearAllFilters
  \/ selectEssayType
  \/ handleEditScore
  \/ handleScoreChange
  \/ handleSave
  \/ handleCancel

SpecPage == Init /\ [][PageNext]_vars

\* C14: the stored Submissions change only in a step that is an override save;
\* essay-type selection, navigation, search, opening the modal, changing scores
\* or the comment in it and closing it leave the stored list as it is.
OnlySaveChangesStored ==
  [][allStudentsOf(updatedStudents') # allStudents => handleSave]_vars

\* nothing saved yet, although the reviewer has changed a score of a Submission
\* without human records and closed the modal, typed a search query and
\* selected an essay type
OnlySaveChangesStoredWitness ==
  /\ ~isEditModalOpen
  /\ updatedStudents = <<>>
  /\ allStudents = students
  /\ \A i \in DOMAIN students : ~hasHumanRecord(students[i])
  /\ Get(gradingSource, "content_understanding") = "human"
  /\ searchQuery = "s2"
  /\ selectedEssayTypeFilter # None
  /\ currentStudent = 0

-----------------------------------------------------------------------------
(* highlightFlaggedContent as a function of its arguments *)

\* the letters of the essay texts: none of them occurs in the markup
TextChars == {"x", "y", "X"}

EssayTexts == UNION { [1..n -> TextChars] : n \in 0..MaxTextLen }

\* a phrase, a part of it, a word that occurs in no text, a blank and an
\* empty sentence
FlaggedPool == { <<"x", "y">>, <<"x">>, <<"a", "n">>, <<" ">>, <<>> }

\* flaggedSentences: undefined, or an array of 0..MaxFlagged sentences
FlaggedLists ==
  {None} \cup
    { Some(l) : l \in UNION { { f \in [1..n -> FlaggedPool] :
                                  \A i, j \in 1..n : f[i] = f[j] => i = j } :
                              n \in 0..MaxFlagged } }

HighlightInit ==
  /\ PageIdle
  /\ DedupIdle
  /\ FlowIdle
  /\ hlText \in EssayTexts
  /\ hlFlagged \in FlaggedLists
  /\ hlResult = None

\* the essay panel: highlightFlaggedContent(essayResponse, flaggedSentences)
HighlightCall ==
  /\ hlResult = None
  /\ hlResult' = Some(highlightFlaggedContent(hlText, hlFlagged))
  /\ UNCHANGED <<hlText, hlFlagged>>
  /\ UNCHANGED <<pageVars, dfVars, flowVars>>

SpecHighlight == HighlightInit /\ [][HighlightCall]_vars

tagAt(out, i, tag) == i + Len(tag) - 1 <= Len(out) /\ SubSeq(out, i, i + Len(tag) - 1) = tag

RECURSIVE scanMarkup(_, _, _, _)
\* reads the annotated text from position i on, at nesting depth `depth`, with
\* the reading so far in acc: the deepest nesting seen, the characters outside
\* of tags, and the spans of depth 1 as [start, len] in those characters
scanMarkup(out, i, depth, acc) ==
  IF i > Len(out) THEN [acc EXCEPT !.open = depth]
  ELSE IF tagAt(out, i, OpenTag)
       THEN scanMarkup(out, i + Len(OpenTag), depth + 1,
                       [acc EXCEPT !.deepest = IF depth + 1 > @ THEN depth + 1 ELSE @,
                                   !.start = IF depth = 0 THEN Len(acc.plain) + 1 ELSE @])
  ELSE IF tagAt(out, i, CloseTag)
       THEN scanMarkup(out, i + Len(CloseTag), depth - 1,
                       [acc EXCEPT !.spans =
                          IF depth = 1
                          THEN @ \cup {[start |-> acc.start, len |-> Len(acc.plain) - acc.start + 1]}
                          ELSE @])
  ELSE scanMarkup(out, i + 1, depth, [acc EXCEPT !.plain = @ \o <<out[i]>>])

markupOf(out) == scanMarkup(out, 1, 0, [deepest |-> 0, plain |-> <<>>, spans |-> {}, start |-> 0, open |-> 0])

\* the sentences the highlighter acts on, longest first
effectiveSentences(flagged) ==
  IF flagged = None THEN <<>>
  ELSE SelectSeq(sortLongestFirst(flagged[1]), LAMBDA f : trim(f) # <<>>)

RECURSIVE occurrences(_, _, _)
\* the starts of the occurrences of needle in text, from left to right without overlap
occurrences(text, i, needle) ==
  IF i > Len(text) \/ needle = <<>> THEN {}
  ELSE IF matchesAt(text, i, needle) THEN {i} \cup occurrences(text, i + Len(needle), needle)
       ELSE occurrences(text, i + 1, needle)

\* two of the flagged sentences occur in the text, one of them inside the other
oneInsideAnother(text, flagged) ==
  /\ flagged # None
  /\ \E i, j \in DOMAIN flagged[1] :
       /\ i # j
       /\ flagged[1][i] # <<>>
       /\ includes(toLowerCase(flagged[1][j]), toLowerCase(flagged[1][i]))
       /\ includes(toLowerCase(text), toLowerCase(flagged[1][j]))

\* C15: when one flagged sentence occurs inside another, the annotated text has no span inside a span and its markup is intact:
\* every span is closed, the characters outside of the tags are the essay text,
\* and every occurrence of the longest flagged sentence is one span.
NoNestedOrAlteredMarkup ==
  (hlResult # None /\ oneInsideAnother(hlText, hlFlagged)) =>
    LET m == markupOf(hlResult[1])
        sorted == effectiveSentences(hlFlagged)
    IN /\ m.deepest <= 1
       /\ m.open = 0
       /\ m.plain = hlText
       /\ sorted # <<>> =>
            \A p \in occurrences(hlText, 1, sorted[1]) :
              [start |-> p, len |-> Len(sorted[1])] \in m.spans

\* the list without its entry j
withoutEntry(list, j) == SubSeq(list, 1, j - 1) \o SubSeq(list, j + 1, Len(list))

\* C16: without a text or without flagged sentences the result is the text;
\* a flagged sentence that does not occur in the text leaves the result what
\* it is for the other sentences.
AbsentSentenceSkipped ==
  hlResult # None =>
    /\ (hlText = <<>> \/ hlFlagged = None \/ hlFlagged = Some(<<>>)) => hlResult[1] = hlText
    /\ hlFlagged # None =>
         \A j \in DOMAIN hlFlagged[1] :
           occurrences(hlText, 1, hlFlagged[1][j]) = {} =>
             hlResult[1] = highlightFlaggedContent(hlText, Some(withoutEntry(hlFlagged[1], j)))

-----------------------------------------------------------------------------
(* processResults on every shape of the grading response *)

\* a record with a mean score of 2.5 next to its essay score
MeanBody ==
  WithRubric(
    RawBody(FALSE, FALSE, Some(25), Some(Whole(7)), Some(4),
            << Slot(Some("content_understanding"), Some(3), None) >>,
            <<>>),
    None)

\* a sum-mode record that states a maximum of 5
MaxFiveBody ==
  WithRubric(
    RawBody(FALSE, FALSE, None, Some(Whole(9)), Some(5),
            << Slot(Some("writing_quality"), Some(4), None),
               Slot(Some("content_understanding"), Some(5), Some("ai")) >>,
            <<>>),
    None)

\* the record bodies that carry no override flag
ParseBodies == {b \in RawBodies : ~b.manual_override_applied}

\* a record with its id in the record, in the wrapper, in the wrapped result,
\* or nowhere
ParseRecords ==
  UNION { { Bare([student_id |-> Some("S2"), essay_type |-> Some("E1")] @@ b),
            Bare([student_id |-> None, essay_type |-> Some("E1")] @@ b),
            Wrapped(Some("S1"), Some("E1"), [student_id |-> None, essay_type |-> None] @@ b),
            Wrapped(None, None, [student_id |-> Some("S1"), essay_type |-> Some("E2")] @@ b),
            Wrapped(None, None, [student_id |-> None, essay_type |-> None] @@ b) } :
          b \in ParseBodies }

ParseBatches == UNION { [1..n -> ParseRecords] : n \in 0..MaxBatch }

\* null, an array, one record as the whole response, or {results: [...]}
ApiResponses ==
  {NoResults}
    \cup {ArrayOf(batch) : batch \in ParseBatches}
    \cup {ObjectOf(r, None) : r \in ParseRecords}
    \cup {ObjectOf(Wrapped(None, None, [student_id |-> None, essay_type |-> None]), Some(batch)) :
            batch \in ParseBatches}

ParseInit ==
  /\ FlowIdle
  /\ results \in ApiResponses
  /\ students = processResults(results)
  /\ updatedStudents = <<>>
  /\ currentStudent = 0
  /\ searchQuery = ""
  /\ selectedEssayTypeFilter = None
  /\ ModalInit
  /\ DedupIdle
  /\ HighlightIdle

\* the results view on a parsed response of any shape
SpecParse == ParseInit /\ [][NavNext]_vars

\* the raw records of a response
recordsOf(apiResults) ==
  IF apiResults.kind = "null" THEN <<>>
  ELSE IF apiResults.kind = "array" THEN apiResults.items
  ELSE IF apiResults.results # None THEN apiResults.results[1]
  ELSE <<apiResults.record>>

\* no student id in the record or in its wrapper
withoutId(record) == record.top.student_id = None /\ record.inner.student_id = None

\* C17: a response of n raw records is parsed into n Submissions, record i
\* into Submission i, as it is parsed when it is alone in an array; a record
\* without a student id gives a Submission with the id "Unknown".
EveryRecordParsed ==
  LET records == recordsOf(results) IN
    /\ Len(students) = Len(records)
    /\ \A i \in DOMAIN records :
         /\ i \in DOMAIN students
         /\ students[i] = processResults(ArrayOf(<<records[i]>>))[1]
         /\ withoutId(records[i]) => students[i].id = "Unknown"

-----------------------------------------------------------------------------
(* Score records after parsing and after override saves *)

\* C18: every score record of every stored Submission has a score from 0 to
\* the maximum it records, and that maximum is the maxScore of its Submission.
ScoreWithinMax ==
  \A i \in DOMAIN allStudents :
    \A j \in DOMAIN exposedFeedback(allStudents[i]) :
      LET record == exposedFeedback(allStudents[i])[j].v IN
        /\ 0 <= record.score.num
        /\ record.score.num <= record.score.den
        /\ record.score.num <= allStudents[i].maxScore

-----------------------------------------------------------------------------
(* The override session on records that name a criterion by its legacy key *)

\* one AI-graded criterion with a justification, under its legacy name
LegacyBody ==
  WithRubric(
    RawBody(FALSE, FALSE, None, Some(Whole(3)), Some(4),
            << Slot(Some("contentUnderstanding"), Some(3), None) >>,
            << [k |-> "contentUnderstanding", v |-> "J1"] >>),
    None)

LegacyRecords ==
  { Bare([student_id |-> Some(id), essay_type |-> Some(et)] @@ b) :
      id \in StudentIds, et \in EssayTypes,
      b \in {LegacyBody} \cup {c \in RawBodies : c.max_score = Some(4)} }

\* batches of 1..MaxBatch records of different students
LegacyBatches ==
  UNION { { r \in [1..n -> LegacyRecords] :
              /\ r[1].inner.student_id = Some("S1")
              /\ r[1].inner.essay_type = Some("E1")
              /\ \A i, j \in 1..n : r[i].inner.student_id = r[j].inner.student_id => i = j } :
          n \in 1..MaxBatch }

LegacyInit ==
  /\ FlowIdle
  /\ results \in {ArrayOf(batch) : batch \in LegacyBatches}
  /\ students = processResults(results)
  /\ updatedStudents = <<>>
  /\ currentStudent = 0
  /\ searchQuery = ""
  /\ selectedEssayTypeFilter = None
  /\ ModalInit
  /\ DedupIdle
  /\ HighlightIdle

SpecLegacy == LegacyInit /\ [][Next]_vars

\* the reviewer has changed the score of this section since the modal opened
touchedInSession(key) ==
  /\ Has(scores, key)
  /\ \/ Get(scores, key) # Get(initialScoresOf(currentFeedback, modalMaxScore), key)
     \/ Get(gradingSource, key) # Get(initialGradingSourceOf(currentFeedback), key)

\* C19: an override save keeps, in every stored Submission, every criterion
\* that had a score record, with its justification text; the record of a
\* criterion that was not touched in the session keeps its score and its
\* provenance, and the record of a touched criterion of the shown Submission
\* gets the chosen score and the provenance human.
SaveKeepsRecords ==
  [][handleSave =>
       \A i \in DOMAIN allStudents :
         LET before == exposedFeedback(allStudents[i])
             after == exposedFeedback(allStudentsOf(updatedStudents')[i])
         IN \A j \in DOMAIN before :
              LET key == before[j].k IN
                /\ Has(after, key)
                /\ Get(after, key).text = before[j].v.text
                /\ (i # activeIndex \/ ~touchedInSession(key)) =>
                     /\ Get(after, key).score.num = before[j].v.score.num
                     /\ Get(after, key).isManualOverride = before[j].v.isManualOverride
                /\ (i = activeIndex /\ touchedInSession(key)) =>
                     /\ Get(after, key).score.num = Get(scores, key)
                     /\ Get(after, key).isManualOverride]_vars

\* C20: after an override save a criterion that had no score record in a
\* stored Submission has one exactly when the Submission is the shown one and
\* the reviewer touched the criterion; the new record holds the chosen score
\* and the provenance human.
SaveCreatesTouchedOnly ==
  [][handleSave =>
       \A i \in DOMAIN allStudents :
         LET before == exposedFeedback(allStudents[i])
             after == exposedFeedback(allStudentsOf(updatedStudents')[i])
         IN \A key \in Keys(after) \cup Keys(scores) :
              ~Has(before, key) =>
                /\ Has(after, key) <=> (i = activeIndex /\ touchedInSession(key))
                /\ Has(after, key) =>
                     /\ Get(after, key).score.num = Get(scores, key)
                     /\ Get(after, key).isManualOverride]_vars

-----------------------------------------------------------------------------
(* The rubric slots and the score semantics of a parsed record *)

\* the slots 1..10 of a record that have a name and a score above 0
qualifyingSlots(result) == {s \in 1..10 : slotQualifies(slotOf(result, s))}

\* C23: a Submission parsed from a raw record has as many score records as
\* the record has rubric slots 1..10 with a metric name and a score above 0,
\* one for the name of each such slot and none for any other name.
OneRecordPerQualifyingSlot ==
  \A i \in DOMAIN students :
    LET result == results.items[i].inner IN
      /\ Len(students[i].feedback) = Cardinality(qualifyingSlots(result))
      /\ \A s \in qualifyingSlots(result) :
           Has(students[i].feedback, slotOf(result, s).name[1])
      /\ \A j \in DOMAIN students[i].feedback :
           \E s \in qualifyingSlots(result) :
             slotOf(result, s).name[1] = students[i].feedback[j].k

\* records with and without the override flag, a mean score and a max_score
SemanticsBodies == RawBodies \cup {MeanBody, MaxFiveBody}

\* batches of 1..MaxBatch such records, of student S1 and then of student S2
SemanticsBatches ==
  UNION { { [i \in 1..n |->
               Bare([student_id |-> Some(IF i = 1 THEN "S1" ELSE "S2"),
                     essay_type |-> Some("E1")] @@ b[i])] :
              b \in [1..n -> SemanticsBodies] } : n \in 1..MaxBatch }

SemanticsInit ==
  /\ FlowIdle
  /\ results \in {ArrayOf(batch) : batch \in SemanticsBatches}
  /\ students = processResults(results)
  /\ updatedStudents = <<>>
  /\ currentStudent = 0
  /\ searchQuery = ""
  /\ selectedEssayTypeFilter = None
  /\ ModalInit
  /\ DedupIdle
  /\ HighlightIdle

\* the results view on parsed records of every score semantics
SpecSemantics == SemanticsInit /\ [][NavNext]_vars

\* the score semantics of the Submission sub parsed from the record result:
\* mean semantics if isMean, else sum semantics with the denominator sumMax
semanticsAre(sub, result, isMean, sumMax) ==
  LET essayScore == sub.essayScore
      maxScore == IF isMean THEN 3 ELSE sumMax
  IN /\ sub.maxScore = maxScore
     /\ sub.score = [num |-> IF isMean THEN MathRound(essayScore) ELSE essayScore,
                      den |-> maxScore]
     /\ sub.maxAggregateScore = Cardinality(qualifyingSlots(result)) * maxScore
     /\ \A j \in DOMAIN sub.feedback : sub.feedback[j].v.score.den = maxScore

\* the record carries the override flag or a mean-score field
carriesMeanMark(result) == result.manual_override_applied \/ result.mean_score # None

-----------------------------------------------------------------------------
(* The essay type and the essay text of a parsed record *)

\* the record with the field essay_response in its wrapper and in its result
WithText(record, topText, innerText) ==
  [top |-> [essay_response |-> topText] @@ record.top,
   inner |-> [essay_response |-> innerText] @@ record.inner]

\* one record of student S1, each of the fields essay_type and essay_response
\* present or absent in the wrapper and in the wrapped result
OriginRecords ==
  { WithText(Wrapped(Some("S1"), topType,
                     [student_id |-> None, essay_type |-> innerType] @@ MeanBody),
             topText, innerText) :
      topType \in {None, Some("E1")}, innerType \in {None, Some("E2")},
      topText \in {None, Some("T1")}, innerText \in {None, Some("T2")} }

\* the uploaded data: none, one essay of this or of another student, or a
\* list of essays; an essay that passed validateJsonStructure in UploadPage
\* has a student_id, a content_id and an essay_response
OriginalEssays ==
  { Essay(Some(id), Some("C1"), Some("T3"), type) :
      id \in StudentIds, type \in {None, Some("Narrative")} }

OriginalData ==
  {NoEssayData}
    \cup {Single(e) : e \in OriginalEssays}
    \cup {Bulk(<<>>)}
    \cup {Bulk(<<Essay(Some("S2"), Some("C2"), Some("T4"), Some("E2")), e>>) :
            e \in OriginalEssays}

\* nothing, or a record of student S2 without an essay text of its own
OriginRest ==
  { <<>>, << Bare([student_id |-> Some("S2"), essay_type |-> Some("E1")] @@ MeanBody) >> }

OriginInit ==
  /\ currentPage = "results"
  /\ essayData \in OriginalData
  /\ gradingResults = NoResults
  /\ UploadMounted
  /\ selections = 0
  /\ GradingMounted
  /\ results \in {ArrayOf(<<r>> \o rest) : r \in OriginRecords, rest \in OriginRest}
  /\ students = processResults(results)
  /\ updatedStudents = <<>>
  /\ currentStudent = 0
  /\ searchQuery = ""
  /\ selectedEssayTypeFilter = None
  /\ ModalInit
  /\ DedupIdle
  /\ HighlightIdle

\* the results view on one record parsed next to the uploaded data
SpecOrigin == OriginInit /\ [][NavNext]_vars

\* the first of the sources that is present, in their order of priority
firstPresent(sources) ==
  LET present == {i \in DOMAIN sources : sources[i] # None} IN
  sources[CHOOSE i \in present : \A j \in present : i <= j][1]

\* the fields named field of the wrapper, of the result and of the uploaded
\* essay of the student of record i
wrapperField(i, field) == Field(results.items[i].top, field)

resultField(i, field) == Field(results.items[i].inner, field)

uploadedField(i, field) == OriginalField(findOriginalEssay(students[i].id), field)

-----------------------------------------------------------------------------
(* Provenance of the score records over modal sessions *)

\* the criteria of a Submission whose exposed score record is marked human
humanKeys(sub) ==
  {exposedFeedback(sub)[j].k : j \in {n \in DOMAIN exposedFeedback(sub) :
                                        exposedFeedback(sub)[n].v.isManualOverride}}

\* the sections the modal has marked human
humanSections(gs) == {gs[j].k : j \in {n \in DOMAIN gs : gs[n].v = "human"}}

\* C26: a score record of a stored Submission that is marked human is marked
\* human after every step of the page and of the modal, and a section that
\* the modal has marked human stays so while the modal is open, whatever
\* score is chosen for it afterwards.
ProvenanceMonotone ==
  [][ /\ \A i \in DOMAIN allStudentsOf(updatedStudents) :
           /\ i \in DOMAIN allStudentsOf(updatedStudents')
           /\ humanKeys(allStudentsOf(updatedStudents)[i])
                 \subseteq humanKeys(allStudentsOf(updatedStudents')[i])
      /\ (isEditModalOpen /\ isEditModalOpen') =>
            humanSections(gradingSource) \subseteq humanSections(gradingSource') ]_vars

-----------------------------------------------------------------------------
(* Which stored Submissions the results view can show *)

\* the essay types offered for the student with this id
essayTypesOffered(id) ==
  {allStudents[j].essayType : j \in {n \in DOMAIN allStudents :
                                       allStudents[n].id = id /\ allStudents[n].essayType # ""}}

\* the stored Submission i is the entry of its student in the list of unique
\* students, or the Submission shown once its essay type is chosen among the
\* essay types offered for its student
canBeShown(i) ==
  LET unique == getUniqueStudents(allStudents)
      id == allStudents[i].id
  IN \E c \in DOMAIN unique :
       /\ unique[c].id = id
       /\ \/ activeIndexFor(allStudents, unique, c - 1, None) = i
          \/ /\ allStudents[i].essayType \in essayTypesOffered(id)
             /\ activeIndexFor(allStudents, unique, c - 1,
                               Some(allStudents[i].essayType)) = i

\* C27: every stored Submission can be shown by the results view, the
\* Submissions with the id "Unknown" included.
EverySubmissionShown ==
  \A i \in DOMAIN allStudents : canBeShown(i)

-----------------------------------------------------------------------------
(* The essay type filter when the active student changes *)

\* the id of the student at the active index of the displayed list, None
\* when the index is outside the list
activeStudentOf(index, updated, query) ==
  LET display == displayStudentsOf(updated, query) IN
  IF index + 1 \in DOMAIN display THEN Some(display[index + 1].id) ELSE None

\* C30: a step of the results view that makes another student the active
\* student leaves no essay type selected, and after every step the active index is an index of
\* the displayed list unless that list is empty.
FilterResetWithStudent ==
  [][ /\ activeStudentOf(currentStudent', updatedStudents', searchQuery')
           \notin {None, activeStudentOf(currentStudent, updatedStudents, searchQuery)}
         => selectedEssayTypeFilter' = None
      /\ displayStudentsOf(updatedStudents', searchQuery') # <<>>
         => currentStudent' + 1 \in DOMAIN displayStudentsOf(updatedStudents', searchQuery') ]_vars

-----------------------------------------------------------------------------
(* App, UploadPage and GradingPage: from the upload to the results *)

MaxSelections == 2

\* a file of the reviewer: its text is not JSON, or it is the JSON of data
NotJson == [json |-> FALSE]

JsonFile(data) == [json |-> TRUE, data |-> data]

\* an error message of validateJsonStructure: `Essay ${essay}: ${text}` in the
\* bulk format, text alone (essay 0) otherwise
ErrorOf(essay, text) == [essay |-> essay, text |-> text]

\* the first field an essay lacks, None if it has the three of them
missingField(essay) ==
  IF essay.student_id = None THEN Some("Missing student_id")
  ELSE IF essay.content_id = None THEN Some("Missing content_id")
  ELSE IF essay.essay_response = None THEN Some("Missing essay_response")
  ELSE None

\* validateJsonStructure: None for null
validateJsonStructure(data) ==
  IF data.kind = "bulk"
  THEN LET lacking == {i \in DOMAIN data.essays : missingField(data.essays[i]) # None} IN
       IF lacking = {} THEN None
       ELSE LET i == CHOOSE n \in lacking : \A m \in lacking : n <= m
            IN Some(ErrorOf(i, missingField(data.essays[i])[1]))
  ELSE IF /\ data.kind = "single"
          /\ (data.essay.student_id # None \/ data.essay.essay_response # None)
       THEN IF missingField(data.essay) = None THEN None
            ELSE Some(ErrorOf(0, missingField(data.essay)[1]))
  ELSE Some(ErrorOf(0, "Invalid format"))

\* the files the reviewer chooses from: no JSON, one essay without a
\* content_id, an object of another form, one valid essay, a valid list
UploadFiles ==
  { NotJson,
    JsonFile(Single(Essay(Some("S1"), None, Some("T1"), None))),
    JsonFile(OtherForm),
    JsonFile(Single(Essay(Some("S1"), Some("C1"), Some("T3"), None))),
    JsonFile(Bulk(<< Essay(Some("S1"), Some("C1"), Some("T3"), Some("E1")),
                     Essay(Some("S2"), Some("C2"), Some("T4"), None) >>)) }

\* what the grading service answers
Responses ==
  { ArrayOf(<<>>),
    ArrayOf(<< Bare([student_id |-> Some("S1"), essay_type |-> Some("E1")] @@ MeanBody) >>) }

\* what fetch or the response handling throws
FetchErrors == {"Failed to fetch", "API request failed: 500"}

FlowInit ==
  /\ currentPage = "upload"
  /\ essayData = NoEssayData
  /\ gradingResults = NoResults
  /\ UploadMounted
  /\ selections = 0
  /\ GradingMounted
  /\ PageIdle
  /\ DedupIdle
  /\ HighlightIdle

\* handleDrop and handleFileSelect with a .json file; the upload area is
\* rendered while no file is selected.  parseJsonFile starts the FileReader.
selectFile ==
  /\ currentPage = "upload"
  /\ selectedFile = None
  /\ selections < MaxSelections
  /\ \E file \in UploadFiles :
       /\ selectedFile' = Some(file)
       /\ reads' = Append(reads, file)
  /\ isUploading' = TRUE
  /\ uploadProgress' = 0
  /\ uploadComplete' = FALSE
  /\ parseError' = None
  /\ selections' = selections + 1
  /\ UNCHANGED <<pageEssayData, intervals>>
  /\ UNCHANGED <<appVars, gradingVars, pageVars, dfVars, hlVars>>

\* reader.onload of one of the files being read, with simulateUpload() for a
\* file that is valid
readerOnload ==
  /\ currentPage = "upload"
  /\ \E i \in DOMAIN reads :
       LET file == reads[i]
           validationError == IF file.json THEN validateJsonStructure(file.data) ELSE None
       IN /\ reads' = SubSeq(reads, 1, i - 1) \o SubSeq(reads, i + 1, Len(reads))
          /\ IF ~file.json
             THEN /\ parseError' = Some(ErrorOf(0, "Invalid JSON file format"))
                  /\ isUploading' = FALSE
                  /\ UNCHANGED <<pageEssayData, uploadProgress, uploadComplete, intervals>>
             ELSE IF validationError # None
             THEN /\ parseError' = validationError
                  /\ isUploading' = FALSE
                  /\ UNCHANGED <<pageEssayData, uploadProgress, uploadComplete, intervals>>
             ELSE /\ pageEssayData' = file.data
                  /\ isUploading' = TRUE
                  /\ uploadProgress' = 0
                  /\ uploadComplete' = FALSE
                  /\ intervals' = intervals + 1
                  /\ UNCHANGED parseError
  /\ UNCHANGED <<selectedFile, selections>>
  /\ UNCHANGED <<appVars, gradingVars, pageVars, dfVars, hlVars>>

\* one call of the callback of a simulateUpload interval
intervalTick ==
  /\ currentPage = "upload"
  /\ intervals > 0
  /\ IF uploadProgress >= 100
     THEN /\ intervals' = intervals - 1
          /\ isUploading' = FALSE
          /\ uploadComplete' = TRUE
          /\ uploadProgress' = 100
     ELSE /\ uploadProgress' = uploadProgress + 2
          /\ UNCHANGED <<intervals, isUploading, uploadComplete>>
  /\ UNCHANGED <<selectedFile, pageEssayData, parseError, reads, selections>>
  /\ UNCHANGED <<appVars, gradingVars, pageVars, dfVars, hlVars>>

\* the button "Choose New File", rendered once a file is selected or the
\* upload is complete
handleChooseNewFile ==
  /\ currentPage = "upload"
  /\ uploadComplete \/ selectedFile # None
  /\ selectedFile' = None
  /\ uploadProgress' = 0
  /\ isUploading' = FALSE
  /\ uploadComplete' = FALSE
  /\ pageEssayData' = NoEssayData
  /\ parseError' = None
  /\ UNCHANGED <<reads, intervals, selections>>
  /\ UNCHANGED <<appVars, gradingVars, pageVars, dfVars, hlVars>>

\* gradeEssays can build its request body from the data
hasEssayForm(data) ==
  \/ data.kind = "bulk"
  \/ /\ data.kind = "single"
     /\ (data.essay.student_id # None \/ data.essay.essay_response # None)

\* the button "Start Grading", rendered once the upload is complete:
\* handleStartGrading of UploadPage and of App, then the mount of
\* GradingPage and gradeEssays up to its fetch
handleStartGrading ==
  /\ currentPage = "upload"
  /\ uploadComplete
  /\ pageEssayData # NoEssayData
  /\ essayData' = pageEssayData
  /\ currentPage' = "grading"
  /\ selectedFile' = None
  /\ uploadProgress' = 0
  /\ isUploading' = FALSE
  /\ uploadComplete' = FALSE
  /\ pageEssayData' = NoEssayData
  /\ parseError' = None
  /\ reads' = <<>>
  /\ intervals' = 0
  /\ currentStep' = 0
  /\ pendingResults' = None
  /\ completions' = 0
  /\ IF hasEssayForm(pageEssayData)
     THEN /\ isGrading' = TRUE
          /\ error' = None
          /\ inFlight' = inFlight + 1
     ELSE /\ isGrading' = FALSE
          /\ error' = Some("Invalid file format: Missing required essay data")
          /\ UNCHANGED inFlight
  /\ UNCHANGED <<gradingResults, selections>>
  /\ UNCHANGED <<pageVars, dfVars, hlVars>>

\* one call of the callback of the step interval, which runs while isGrading
stepTick ==
  /\ currentPage = "grading"
  /\ isGrading
  /\ currentStep < 4
  /\ currentStep' = currentStep + 1
  /\ UNCHANGED <<isGrading, error, inFlight, pendingResults, completions>>
  /\ UNCHANGED <<appVars, uploadVars, pageVars, dfVars, hlVars>>

\* fetch rejects, the response is not ok, or its body is no JSON: the catch
fetchFails ==
  /\ currentPage = "grading"
  /\ inFlight > 0
  /\ inFlight' = inFlight - 1
  /\ \E message \in FetchErrors : error' = Some(message)
  /\ isGrading' = FALSE
  /\ UNCHANGED <<currentStep, pendingResults, completions>>
  /\ UNCHANGED <<appVars, uploadVars, pageVars, dfVars, hlVars>>

\* the response is ok and response.json() resolves: setTimeout(..., 1000)
fetchSucceeds ==
  /\ currentPage = "grading"
  /\ inFlight > 0
  /\ inFlight' = inFlight - 1
  /\ \E response \in Responses : pendingResults' = Some(response)
  /\ UNCHANGED <<isGrading, error, currentStep, completions>>
  /\ UNCHANGED <<appVars, uploadVars, pageVars, dfVars, hlVars>>

\* an onComplete(results) that is called again for the results page
onCompleteKeepsTimeout ==
  /\ pendingResults # None
  /\ gradingResults' = pendingResults[1]
  /\ currentPage' = "results"
  /\ completions' = completions + 1
  /\ completions < 2
  /\ UNCHANGED <<isGrading, error, currentStep, inFlight, pendingResults>>
  /\ UNCHANGED essayData
  /\ UNCHANGED <<uploadVars, pageVars, dfVars, hlVars>>

\* the timeout fires: onComplete(results), which is handleViewResults of App
onComplete ==
  /\ currentPage = "grading"
  /\ pendingResults # None
  /\ gradingResults' = pendingResults[1]
  /\ currentPage' = "results"
  /\ completions' = completions + 1
  /\ pendingResults' = None
  /\ UNCHANGED <<isGrading, error, currentStep, inFlight>>
  /\ UNCHANGED essayData
  /\ UNCHANGED <<uploadVars, pageVars, dfVars, hlVars>>

\* a handleBackToUpload that keeps the graded results
handleBackToUploadKeepingResults ==
  /\ currentPage = "results"
  /\ currentPage' = "upload"
  /\ essayData' = NoEssayData
  /\ UNCHANGED gradingResults
  /\ UNCHANGED <<uploadVars, gradingVars, pageVars, dfVars, hlVars>>

\* the button "Back" of the results page: handleBackToUpload of App
handleBackToUpload ==
  /\ currentPage = "results"
  /\ currentPage' = "upload"
  /\ essayData' = NoEssayData
  /\ gradingResults' = NoResults
  /\ UNCHANGED <<uploadVars, gradingVars, pageVars, dfVars, hlVars>>

\* the button "Try Again" of the error view: window.location.reload()
reload ==
  /\ currentPage = "grading"
  /\ error # None
  /\ currentPage' = "upload"
  /\ essayData' = NoEssayData
  /\ gradingResults' = NoResults
  /\ isGrading' = FALSE
  /\ error' = None
  /\ currentStep' = 0
  /\ inFlight' = 0
  /\ pendingResults' = None
  /\ completions' = 0
  /\ UNCHANGED <<uploadVars, pageVars, dfVars, hlVars>>

FlowNext ==
  \/ selectFile
  \/ readerOnload
  \/ intervalTick
  \/ handleChooseNewFile
  \/ handleStartGrading
  \/ stepTick
  \/ fetchFails
  \/ fetchSucceeds
  \/ onComplete
  \/ handleBackToUpload
  \/ reload

SpecFlow == FlowInit /\ [][FlowNext]_vars

-----------------------------------------------------------------------------
(* The upload state *)

\* the file is no JSON or its data fails validateJsonStructure
rejected(file) == ~file.json \/ validateJsonStructure(file.data) # None

\* the selected file has been read and was rejected
rejectedFileShown ==
  /\ currentPage = "upload"
  /\ selectedFile # None
  /\ rejected(selectedFile[1])
  /\ \A i \in DOMAIN reads : reads[i] # selectedFile[1]

\* C21: while the file that is selected has been read and rejected, a parse
\* error is shown, essayData is not the data of that file, uploadComplete is
\* false, and no step starts the grading.
RejectedFileBlocksGrading ==
  [][ rejectedFileShown =>
        /\ parseError # None
        /\ ~uploadComplete
        /\ selectedFile[1].json => pageEssayData # selectedFile[1].data
        /\ currentPage' # "grading" ]_vars

\* C28: in UploadPage uploadComplete implies that essayData is not null and
\* parseError is null, and uploadProgress is between 0 and 100.
CompleteMeansParsed ==
  /\ uploadComplete => (pageEssayData # NoEssayData /\ parseError = None)
  /\ uploadProgress \in 0..100

-----------------------------------------------------------------------------
(* One grading request and the pages of App *)

\* the fetch promise settles and the timeout fires; the step interval and
\* the actions of the reviewer may or may not happen
SpecFlowFair ==
  SpecFlow /\ WF_vars(fetchFails \/ fetchSucceeds) /\ WF_vars(onComplete)

\* the state of the grading request of the mounted GradingPage: at most one
\* call outstanding, at most one onComplete, and either no outcome yet, or
\* the error, or the results on their way to onComplete or passed to it
oneOutcomeAtMost ==
  /\ inFlight \in {0, 1}
  /\ completions \in {0, 1}
  /\ inFlight = 1 => (error = None /\ pendingResults = None /\ completions = 0)
  /\ error # None => (pendingResults = None /\ completions = 0)
  /\ pendingResults # None => completions = 0

\* C22: a grading request has at most one API call outstanding; onComplete
\* is invoked at most once, with the results of the response, and never when
\* the error is set; and a request whose call is outstanding ends with the
\* error set or on the results page.
OneCallOneOutcome ==
  /\ []oneOutcomeAtMost
  /\ [][completions' # completions =>
          \/ completions' = 0
          \/ /\ completions' = 1
             /\ error = None
             /\ pendingResults # None
             /\ gradingResults' = pendingResults[1]]_vars
  /\ (currentPage = "grading" /\ inFlight = 1)
        ~> (error # None \/ (currentPage = "results" /\ completions = 1))

\* onComplete was invoked with the results of a response of one record
OneCallOneOutcomeWitness ==
  /\ currentPage = "results"
  /\ completions = 1
  /\ error = None
  /\ gradingResults.kind = "array"
  /\ gradingResults.items # <<>>

\* the pages of App and its data
pagesAgree ==
  /\ currentPage \in {"upload", "grading", "results"}
  /\ currentPage = "upload" <=> essayData = NoEssayData
  /\ gradingResults # NoResults => currentPage = "results"

\* C29: currentPage is upload, grading or results; it is upload exactly when
\* essayData is null; gradingResults is non-null only on the results page;
\* the results page is entered only from the grading page by onComplete; and
\* handleBackToUpload leads to the upload page with both cleared.
PagesFollowData ==
  /\ []pagesAgree
  /\ [][ /\ (currentPage' = "results" /\ currentPage # "results") =>
              (currentPage = "grading" /\ onComplete)
         /\ handleBackToUpload =>
              /\ currentPage' = "upload"
              /\ essayData' = NoEssayData
              /\ gradingResults' = NoResults ]_vars

\* back on the upload page after the results of a grading were shown
PagesFollowDataWitness ==
  /\ currentPage = "upload"
  /\ completions = 1
  /\ essayData = NoEssayData
  /\ gradingResults = NoResults

====
